---- MODULE Spec2Model ----
(***************************************************************************)
(* Model of go/systemd/systemd_linux.go: the user-level systemd health     *)
(* probe, the combined supervision check, socket-activation detection,     *)
(* listener resolution and the readiness notification.                     *)
(*                                                                         *)
(* Text is a sequence of characters; a word that the code compares as a    *)
(* whole ("running", "degraded", "active", ...) is one character of the    *)
(* alphabet, white space characters are " " and "\n".                      *)
(*                                                                         *)
(* A goroutine blocks in exec.Cmd.Output() while the subprocess runs, so   *)
(* the probe is split at its two subprocess calls; everything between two  *)
(* calls is one step.  The other operations are one step each.             *)
(***************************************************************************)
EXTENDS Integers, Sequences, FiniteSets, TLC

\* ------------------------------------------------------------------ bounds
NumThreads == 2      \* goroutines calling into the package
MaxInherited == 2    \* most descriptors the supervisor passes down
MaxHandles == 2      \* listener handles handed out before resolution stops

Threads == 1..NumThreads

\* ------------------------------------------------------- values and inputs
StatusCmd == <<"systemctl", "--user", "is-system-running">>
DbusCmd == <<"systemctl", "--user", "is-active", "dbus.service">>

\* error values of exec.Cmd.Output(): nil, *exec.ExitError, anything else
ExecErrs == {"nil", "ExitError", "OtherError"}

\* captured stdout of `systemctl --user is-system-running`
StatusOutputs ==
  { <<>>, <<"running", "\n">>, <<" ", "degraded", "\n">>, <<"offline", "\n">> }

\* captured stdout of `systemctl --user is-active dbus.service`
DbusOutputs == { <<>>, <<"active", "\n">>, <<"inactive", "\n">> }

\* values of the environment variables the package reads
ListenFdsValues == {""} \cup {ToString(n) : n \in 1..MaxInherited}
NotifySocketValues == {"", "/run/user/1000/systemd/notify"}

NoCall ==
  [op |-> "none", ret |-> FALSE, lis |-> 0, err |-> "nil", marker |-> FALSE,
   seen |-> <<>>, queries |-> <<>>, diag |-> <<>>, tried |-> <<>>,
   sent |-> <<>>]

VARIABLES
  env,        \* process environment: variable name -> value
  pc,         \* per goroutine: "ready", "waitStatus", "waitDbus"
  op,         \* per goroutine: the exported function it is inside
  seen,       \* per goroutine: subprocess responses delivered to this call
  queries,    \* per goroutine: subprocess commands issued by this call
  sysMarker,  \* per goroutine: what sdUtil.IsRunningSystemd() answered
  handedOut,  \* listener handles returned to callers so far
  last        \* the most recently completed call and what it returned

vars == <<env, pc, op, seen, queries, sysMarker, handedOut, last>>

\* ------------------------------------------------------------ pure helpers
IsSpace(c) == c \in {" ", "\n", "\t", "\r"}

RECURSIVE TrimLeft(_)
TrimLeft(s) ==
  IF s # <<>> /\ IsSpace(Head(s)) THEN TrimLeft(Tail(s)) ELSE s

RECURSIVE TrimRight(_)
TrimRight(s) ==
  IF s # <<>> /\ IsSpace(s[Len(s)]) THEN TrimRight(SubSeq(s, 1, Len(s) - 1))
  ELSE s

NoTrim(s) == s

\* strings.TrimSpace
TrimSpace(s) == TrimRight(TrimLeft(s))

ExitErrorIsFatal(err) == FALSE

\* _, isExitError := err.(*exec.ExitError)
IsExitError(err) == err = "ExitError"

\* err != nil && !isExitError
InvocationFailed(err) == err # "nil" /\ ~IsExitError(err)

\* a memoised probe: the first response of the last completed probe, if any
CachedOutput(resp) ==
  IF last.op \in {"IsUserSystemdRunning", "IsRunningSystemd"} /\ last.seen # <<>>
  THEN last.seen[1]
  ELSE resp

\* output, err := c.Output(): what the call obtains from its own subprocess
Output(resp) == resp

\* ---------------------------------------------- the libraries' behaviour
\* strconv.Atoi on the values LISTEN_FDS takes; anything unparsable is 0
Atoi(s) ==
  IF \E n \in 1..(MaxInherited + 1) : ToString(n) = s
  THEN CHOOSE n \in 1..(MaxInherited + 1) : ToString(n) = s
  ELSE 0

\* sdActivation.Listeners(unsetEnv): one listener per inherited descriptor
\* (listener i wraps the i-th inherited descriptor), or an error; the
\* marker is cleared only when unsetEnv is set
Listeners(unsetEnv, e, fails) ==
  [out |-> IF fails THEN <<>> ELSE [i \in 1..Atoi(e["LISTEN_FDS"]) |-> i],
   err |-> IF fails THEN "ResolveFailed" ELSE "nil",
   env |-> IF unsetEnv THEN [e EXCEPT !["LISTEN_FDS"] = ""] ELSE e]

\* sdDaemon.SdNotify(unsetEnv, state): no socket -> (false, nil); a failed
\* dial or write -> (false, err); otherwise the payload is written once
SdNotify(unsetEnv, state, e, sendOk) ==
  [tried |-> IF e["NOTIFY_SOCKET"] = "" THEN <<>> ELSE <<state>>,
   sent |-> IF e["NOTIFY_SOCKET"] # "" /\ sendOk THEN <<state>> ELSE <<>>,
   err |-> IF e["NOTIFY_SOCKET"] # "" /\ ~sendOk THEN "SendFailed" ELSE "nil",
   env |-> IF unsetEnv THEN [e EXCEPT !["NOTIFY_SOCKET"] = ""] ELSE e]

\* ------------------------------------------------------------- operations
Init ==
  /\ env \in [LISTEN_FDS : ListenFdsValues, NOTIFY_SOCKET : NotifySocketValues]
  /\ pc = [t \in Threads |-> "ready"]
  /\ op = [t \in Threads |-> "none"]
  /\ seen = [t \in Threads |-> <<>>]
  /\ queries = [t \in Threads |-> <<>>]
  /\ sysMarker = [t \in Threads |-> TRUE]
  /\ handedOut = 0
  /\ last = NoCall

\* the call of goroutine t returns: its locals die, the result is recorded
Return(t, result) ==
  /\ pc' = [pc EXCEPT ![t] = "ready"]
  /\ op' = [op EXCEPT ![t] = "none"]
  /\ seen' = [seen EXCEPT ![t] = <<>>]
  /\ queries' = [queries EXCEPT ![t] = <<>>]
  /\ sysMarker' = [sysMarker EXCEPT ![t] = TRUE]
  /\ last' = result

\* IsUserSystemdRunning (or IsRunningSystemd's right operand) returns b
ProbeReturns(t, b, diag, sn) ==
  Return(t, [NoCall EXCEPT !.op = op[t], !.ret = sysMarker[t] /\ b,
                           !.marker = sysMarker[t], !.seen = sn,
                           !.queries = queries[t], !.diag = diag])

\* exec.Command("systemctl", "--user", "is-system-running"); c.Output()
StartProbe(t, name, marker) ==
  /\ pc' = [pc EXCEPT ![t] = "waitStatus"]
  /\ op' = [op EXCEPT ![t] = name]
  /\ seen' = [seen EXCEPT ![t] = <<>>]
  /\ queries' = [queries EXCEPT ![t] = <<StatusCmd>>]
  /\ sysMarker' = [sysMarker EXCEPT ![t] = marker]
  /\ UNCHANGED <<env, handedOut, last>>

CallIsUserSystemdRunning(t) ==
  /\ pc[t] = "ready"
  /\ StartProbe(t, "IsUserSystemdRunning", TRUE)

EvaluatesRightAlways(left) == TRUE

\* a && b evaluates b only when a is true
EvaluatesRight(left) == left

CallIsRunningSystemd(t) ==
  /\ pc[t] = "ready"
  /\ \E marker \in BOOLEAN :
       IF EvaluatesRight(marker)
       THEN StartProbe(t, "IsRunningSystemd", marker)
       ELSE /\ Return(t, [NoCall EXCEPT !.op = "IsRunningSystemd",
                                        !.ret = marker, !.marker = marker])
            /\ UNCHANGED <<env, handedOut>>

StatusBranchLenient(outputStr) ==
  IF outputStr = <<"degraded">> THEN "degraded"
  ELSE IF outputStr = <<>> THEN "unreachable"
  ELSE "running"

\* the if / else-if chain of lines 40-65 on the trimmed status text
StatusBranch(outputStr) ==
  IF outputStr = <<"running">> THEN "running"
  ELSE IF outputStr = <<"degraded">> THEN "degraded"
  ELSE IF outputStr = <<>> THEN "unreachable"
  ELSE "unexpected"

DbusNotInactive(dbusStatusOutputStr) == dbusStatusOutputStr # <<"inactive">>

\* return dbusStatusOutputStr == "active"
DbusVerdict(dbusStatusOutputStr) == dbusStatusOutputStr = <<"active">>

\* the is-system-running subprocess ends; lines 31-65 up to the next call
StatusReturns(t) ==
  /\ pc[t] = "waitStatus"
  /\ \E out \in StatusOutputs, e \in ExecErrs :
       LET r == Output([out |-> out, err |-> e])
           sn == Append(seen[t], [out |-> out, err |-> e])
           outputStr == TrimSpace(r.out)
           branch == StatusBranch(outputStr)
       IN  IF InvocationFailed(r.err)
           THEN /\ ProbeReturns(t, FALSE,
                      <<"Failed to run systemctl: check user manager status">>, sn)
                /\ UNCHANGED <<env, handedOut>>
           ELSE IF branch = "running"
           THEN /\ ProbeReturns(t, TRUE, <<>>, sn)
                /\ UNCHANGED <<env, handedOut>>
           ELSE IF branch = "degraded"
           THEN /\ pc' = [pc EXCEPT ![t] = "waitDbus"]
                /\ seen' = [seen EXCEPT ![t] = sn]
                /\ queries' = [queries EXCEPT ![t] = Append(queries[t], DbusCmd)]
                /\ UNCHANGED <<env, op, sysMarker, handedOut, last>>
           ELSE IF branch = "unreachable"
           THEN /\ ProbeReturns(t, FALSE,
                      <<"Failed to reach user-level systemd daemon.">>, sn)
                /\ UNCHANGED <<env, handedOut>>
           ELSE /\ ProbeReturns(t, FALSE,
                      <<"Systemd reported an unexpected status">>, sn)
                /\ UNCHANGED <<env, handedOut>>

\* the is-active dbus.service subprocess ends; lines 48-58
DbusReturns(t) ==
  /\ pc[t] = "waitDbus"
  /\ \E out \in DbusOutputs, e \in ExecErrs :
       LET r == Output([out |-> out, err |-> e])
           sn == Append(seen[t], [out |-> out, err |-> e])
           dbusStatusOutputStr == TrimSpace(r.out)
       IN  /\ IF InvocationFailed(r.err)
              THEN ProbeReturns(t, FALSE,
                     <<"Failed to run systemctl: check dbus activity">>, sn)
              ELSE ProbeReturns(t, DbusVerdict(dbusStatusOutputStr), <<>>, sn)
           /\ UNCHANGED <<env, handedOut>>

\* some goroutine is outside the probe and free to make a call
SomeReady == \E t \in Threads : pc[t] = "ready"

\* a call that does not block: it returns in the step that makes it, and
\* leaves every goroutine's probe locals alone
ReturnsAtOnce(result) ==
  /\ SomeReady
  /\ last' = result
  /\ UNCHANGED <<pc, op, seen, queries, sysMarker>>

\* os.Getenv("LISTEN_FDS") != ""
IsSocketActivated ==
  /\ ReturnsAtOnce([NoCall EXCEPT !.op = "IsSocketActivated",
                                  !.ret = (env.LISTEN_FDS # "")])
  /\ UNCHANGED <<env, handedOut>>

ListenersUnsetEnvTrue == TRUE

\* the argument of sdActivation.Listeners(false /* unsetEnv */)
ListenersUnsetEnv == FALSE

SwallowError(listeners, err) ==
  IF err = "nil" /\ Len(listeners) > 1
  THEN [lis |-> 0, err |-> "Too many listeners passed from systemd."]
  ELSE IF err = "nil" /\ Len(listeners) = 1
  THEN [lis |-> listeners[1], err |-> "nil"]
  ELSE [lis |-> 0, err |-> "nil"]

PickFirst(listeners, err) ==
  IF err # "nil" THEN [lis |-> 0, err |-> err]
  ELSE IF Len(listeners) >= 1 THEN [lis |-> listeners[1], err |-> "nil"]
  ELSE [lis |-> 0, err |-> "nil"]

\* lines 87-102: what GetListenerFromEnvironment makes of Listeners' result;
\* lis 0 is the nil listener
Resolve(listeners, err) ==
  IF err # "nil" THEN [lis |-> 0, err |-> err]
  ELSE IF Len(listeners) > 1
  THEN [lis |-> 0, err |-> "Too many listeners passed from systemd."]
  ELSE IF Len(listeners) = 1 THEN [lis |-> listeners[1], err |-> "nil"]
  ELSE [lis |-> 0, err |-> "nil"]

GetListenerFromEnvironment ==
  /\ handedOut < MaxHandles
  /\ \E fails \in BOOLEAN :
       LET l == Listeners(ListenersUnsetEnv, env, fails)
           r == Resolve(l.out, l.err)
       IN  /\ env' = l.env
           /\ handedOut' = IF r.lis # 0 THEN handedOut + 1 ELSE handedOut
           /\ ReturnsAtOnce([NoCall EXCEPT
                               !.op = "GetListenerFromEnvironment",
                               !.lis = r.lis, !.err = r.err,
                               !.seen = <<[out |-> l.out, err |-> l.err]>>])

\* the first argument of sdDaemon.SdNotify(false /* unsetEnv */, "READY=1")
NotifyUnsetEnv == FALSE

\* the second argument of sdDaemon.SdNotify
NotifyState == "READY=1"

PropagatedFault(r) == r.err

\* SdNotify's (bool, error) result is discarded: the caller sees no fault
NotifyFault(r) == "nil"

NotifyStartupFinished ==
  \E sendOk \in BOOLEAN :
    LET r == SdNotify(NotifyUnsetEnv, NotifyState, env, sendOk)
    IN  /\ env' = r.env
        /\ ReturnsAtOnce([NoCall EXCEPT
                            !.op = "NotifyStartupFinished",
                            !.err = NotifyFault(r),
                            !.seen = <<[out |-> r.sent, err |-> r.err]>>,
                            !.tried = r.tried, !.sent = r.sent])
        /\ UNCHANGED handedOut

Next ==
  \/ \E t \in Threads : CallIsUserSystemdRunning(t)
  \/ \E t \in Threads : CallIsRunningSystemd(t)
  \/ \E t \in Threads : StatusReturns(t)
  \/ \E t \in Threads : DbusReturns(t)
  \/ IsSocketActivated
  \/ GetListenerFromEnvironment
  \/ NotifyStartupFinished

Spec == Init /\ [][Next]_vars

\* ------------------------------------------------------------- properties
\* w is s without its leading and trailing white space
TrimmedIs(s, w) ==
  \E i \in 1..(Len(s) + 1), j \in 0..Len(s) :
    /\ SubSeq(s, i, j) = w
    /\ \A k \in 1..(i - 1) : IsSpace(s[k])
    /\ \A k \in (j + 1)..Len(s) : IsSpace(s[k])
    /\ w # <<>> => ~IsSpace(w[1]) /\ ~IsSpace(w[Len(w)])

\* an invocation failure that is not a non-zero exit status
Fatal(e) == e \notin {"nil", "ExitError"}

\* healthy, judged from the responses s of the queries of one call
Verdict(s) ==
  /\ Len(s) >= 1
  /\ \A i \in 1..Len(s) : ~Fatal(s[i].err)
  /\ \/ TrimmedIs(s[1].out, <<"running">>)
     \/ /\ TrimmedIs(s[1].out, <<"degraded">>)
        /\ Len(s) = 2
        /\ TrimmedIs(s[2].out, <<"active">>)

\* C1: GetListenerFromEnvironment's result is decided by the outcome of
\* descriptor resolution: a resolution error is returned as it is with a nil
\* listener; no listener gives (nil, nil); exactly one gives that listener
\* and a nil error; two or more give a nil listener and a non-nil error.
ResolveDeterminedByListeners ==
  last.op = "GetListenerFromEnvironment" =>
    LET l == last.seen[1]
    IN  /\ l.err # "nil" => last.lis = 0 /\ last.err = l.err
        /\ l.err = "nil" /\ Len(l.out) = 0 => last.lis = 0 /\ last.err = "nil"
        /\ l.err = "nil" /\ Len(l.out) = 1 =>
             last.lis = l.out[1] /\ last.lis # 0 /\ last.err = "nil"
        /\ l.err = "nil" /\ Len(l.out) >= 2 => last.lis = 0 /\ last.err # "nil"

ResolveTooManyReached ==
  /\ last.op = "GetListenerFromEnvironment"
  /\ Len(last.seen[1].out) >= 2
  /\ last.lis = 0
  /\ last.err # "nil"

\* C2: IsUserSystemdRunning returns true iff no query failed other than by
\* a non-zero exit status and either the trimmed status is "running", or it
\* is "degraded" and the trimmed dbus answer is "active"; with "running" the
\* dbus query is not issued, whatever the exit status.
UserHealthyIff ==
  last.op = "IsUserSystemdRunning" =>
    LET s == last.seen
    IN  /\ Len(s) >= 1
        /\ last.ret =
             ( /\ \A i \in 1..Len(s) : ~Fatal(s[i].err)
               /\ \/ TrimmedIs(s[1].out, <<"running">>)
                  \/ /\ TrimmedIs(s[1].out, <<"degraded">>)
                     /\ Len(s) = 2
                     /\ TrimmedIs(s[2].out, <<"active">>) )
        /\ ~Fatal(s[1].err) /\ TrimmedIs(s[1].out, <<"running">>) =>
             last.ret /\ last.queries = <<StatusCmd>> /\ Len(s) = 1

RunningDespiteExitStatusReached ==
  /\ last.op = "IsUserSystemdRunning"
  /\ last.seen[1].err = "ExitError"
  /\ TrimmedIs(last.seen[1].out, <<"running">>)
  /\ last.ret

\* C3: with status "degraded" the dbus.service probe is issued, and the
\* result is true exactly when the probe's trimmed output is "active" and
\* the probe did not fail other than by a non-zero exit status.
DegradedFollowsDbus ==
  ( /\ last.op = "IsUserSystemdRunning"
    /\ ~Fatal(last.seen[1].err)
    /\ TrimmedIs(last.seen[1].out, <<"degraded">>) ) =>
    /\ last.queries = <<StatusCmd, DbusCmd>>
    /\ Len(last.seen) = 2
    /\ last.ret = ( /\ ~Fatal(last.seen[2].err)
                    /\ TrimmedIs(last.seen[2].out, <<"active">>) )

DegradedProbeReached ==
  /\ last.op = "IsUserSystemdRunning"
  /\ Len(last.seen) = 2
  /\ TrimmedIs(last.seen[1].out, <<"degraded">>)
  /\ last.seen[2].err = "ExitError"
  /\ ~TrimmedIs(last.seen[2].out, <<"active">>)
  /\ ~last.ret

\* C4: a status that, trimmed, is non-empty and neither "running" nor
\* "degraded" makes IsUserSystemdRunning return false after writing one
\* diagnostic to stderr, without a second query.
UnexpectedStatusUnhealthy ==
  ( /\ last.op = "IsUserSystemdRunning"
    /\ ~TrimmedIs(last.seen[1].out, <<>>)
    /\ ~TrimmedIs(last.seen[1].out, <<"running">>)
    /\ ~TrimmedIs(last.seen[1].out, <<"degraded">>) ) =>
    /\ ~last.ret
    /\ Len(last.diag) = 1
    /\ last.queries = <<StatusCmd>>
    /\ ~Fatal(last.seen[1].err) =>
         last.diag = <<"Systemd reported an unexpected status">>

UnexpectedStatusReached ==
  /\ last.op = "IsUserSystemdRunning"
  /\ TrimmedIs(last.seen[1].out, <<"offline">>)
  /\ last.seen[1].err = "nil"
  /\ last.diag = <<"Systemd reported an unexpected status">>

\* C5: a query that fails other than by a non-zero exit status, or an empty
\* status, gives false with a diagnostic and no fault; a non-zero exit
\* status alone is ignored and the captured output is parsed as usual.
FailureIsUnhealthyNotFault ==
  last.op = "IsUserSystemdRunning" =>
    LET s == last.seen
    IN  /\ last.err = "nil"
        /\ ( \/ \E i \in 1..Len(s) : Fatal(s[i].err)
             \/ TrimmedIs(s[1].out, <<>>) ) =>
             ~last.ret /\ Len(last.diag) = 1
        /\ s[1].err = "ExitError" =>
             /\ TrimmedIs(s[1].out, <<"running">>) => last.ret
             /\ TrimmedIs(s[1].out, <<"degraded">>) => Len(s) = 2
             /\ TrimmedIs(s[1].out, <<>>) =>
                  last.diag = <<"Failed to reach user-level systemd daemon.">>
             /\ TrimmedIs(s[1].out, <<"offline">>) =>
                  last.diag = <<"Systemd reported an unexpected status">>

InvocationFailureReached ==
  /\ last.op = "IsUserSystemdRunning"
  /\ \E i \in 1..Len(last.seen) : Fatal(last.seen[i].err)
  /\ ~last.ret
  /\ Len(last.diag) = 1

\* C6: IsRunningSystemd is true iff the system-level marker is present and
\* the user-level probe is healthy; with the marker absent it is false and
\* no query is issued and no diagnostic written.
CombinedShortCircuits ==
  last.op = "IsRunningSystemd" =>
    /\ last.ret = (last.marker /\ Verdict(last.seen))
    /\ ~last.marker =>
         ~last.ret /\ last.queries = <<>> /\ last.seen = <<>> /\ last.diag = <<>>
    /\ last.marker => Len(last.queries) >= 1 /\ last.queries[1] = StatusCmd

MarkerAbsentReached ==
  /\ last.op = "IsRunningSystemd"
  /\ ~last.marker
  /\ ~last.ret
  /\ last.queries = <<>>

\* C7: no operation changes LISTEN_FDS or NOTIFY_SOCKET, and IsSocketActivated
\* answers true iff LISTEN_FDS is non-empty, so its answer is the same before
\* and after any resolution.
MarkersKept ==
  [][ /\ env' = env
      /\ last'.op = "IsSocketActivated" => last'.ret = (env.LISTEN_FDS # "") ]_vars

ActivatedAfterResolveReached ==
  /\ last.op = "IsSocketActivated"
  /\ last.ret
  /\ handedOut >= 1

\* C8: NotifyStartupFinished gives the caller no fault and no value; it
\* tries the payload READY=1 once when the notification socket is set and
\* nothing otherwise; a failed send delivers nothing.
NotifyNeverFaults ==
  last.op = "NotifyStartupFinished" =>
    /\ last.err = "nil"
    /\ last.tried = IF env.NOTIFY_SOCKET = "" THEN <<>> ELSE <<"READY=1">>
    /\ last.sent = IF last.seen[1].err = "nil" THEN last.tried ELSE <<>>

NotifySendFailedReached ==
  /\ last.op = "NotifyStartupFinished"
  /\ last.seen[1].err = "SendFailed"
  /\ last.tried = <<"READY=1">>
  /\ last.sent = <<>>

\* C9 as stated: over any sequence of GetListenerFromEnvironment calls at
\* most one listener handle is handed out.
AtMostOneHandleEver == handedOut <= 1

\* C9 amended: each call hands out at most one listener handle, and only
\* when exactly one descriptor is inherited; repeated calls each hand out
\* a further handle.
AtMostOneHandlePerCall ==
  [][ handedOut' # handedOut =>
        /\ handedOut' = handedOut + 1
        /\ last'.op = "GetListenerFromEnvironment"
        /\ last'.lis # 0
        /\ Len(last'.seen[1].out) = 1 ]_vars

SecondHandleReached ==
  /\ handedOut = 2
  /\ last.op = "GetListenerFromEnvironment"
  /\ last.lis # 0

\* C10: a probe's result is computed from the responses delivered to that
\* very call, which issues its own queries: nothing is carried over from a
\* previous or a concurrent call.
ProbeResultIsFresh ==
  [][ \A t \in Threads :
        pc[t] # "ready" /\ pc'[t] = "ready" =>
          /\ Len(last'.seen) = Len(seen[t]) + 1
          /\ SubSeq(last'.seen, 1, Len(seen[t])) = seen[t]
          /\ last'.queries = queries[t]
          /\ Len(last'.queries) = Len(last'.seen)
          /\ last'.queries[1] = StatusCmd
          /\ last'.ret = (sysMarker[t] /\ Verdict(last'.seen)) ]_vars

InterleavedProbesReached ==
  /\ last.op \in {"IsUserSystemdRunning", "IsRunningSystemd"}
  /\ last.ret
  /\ TrimmedIs(last.seen[1].out, <<"running">>)
  /\ \E t \in Threads : pc[t] = "waitDbus"

====
